---------------------------- MODULE Spec2Model ----------------------------
(***************************************************************************)
(* TfidfDocRanker (hotpot/tfidf_retriever/tfidf_doc_ranker.py): a loaded,  *)
(* immutable TF-IDF index, the query vectorizer text2spvec, the sparse     *)
(* product, the top-k selection of closest_docs, get_similarity_with_doc   *)
(* and the thread-pool fan-out of batch_closest_docs.                      *)
(*                                                                         *)
(* Numbers.  Weights are fixed-point integers.  np.log / np.log1p are the  *)
(* table LnMilli (natural logarithm in 1/1000 units), so a query weight    *)
(* log1p(tf) * idf is an integer in 1/1000000 units.  A document weight of *)
(* doc_mat is in 1/1000 units (the loaded weight 1 is 1000, the weight 1   *)
(* of a normalised column of two entries is 707).  A score is a sum of     *)
(* products of a query weight and a document weight, each product rounded  *)
(* down to 1/1000000 units (TimesMilli).                                   *)
(*                                                                         *)
(* Queries.  The tokenizer, the n-gram filter and utils.hash are external  *)
(* collaborators; a query is given by the list of bucket ids (wids) they   *)
(* produce for it, in n-gram order.                                        *)
(*                                                                         *)
(* Not modelled: tokenized (it selects the external parser).  A sparse row *)
(* is kept with its columns in ascending order; the order scipy stores     *)
(* them in only decides the order of equal scores, which is left open      *)
(* (TieOrders).                                                            *)
(*                                                                         *)
(* Errors.  "EmptyQuery" is the RuntimeError of line 120,                  *)
(* "UnknownDocument" the KeyError of doc_dict[0][doc_id] (line 55),        *)
(* "UnsupportedConcurrency" the ValueError of line 86, "PoolSizeError" the *)
(* ValueError of ThreadPool(0), "TypeError" the failure of None > 1 and    *)
(* "KthOutOfBounds" the ValueError of np.argpartition on a non-empty array *)
(* for a kth below minus its length.                                       *)
(***************************************************************************)
EXTENDS Integers, Sequences, FiniteSets, TLC

\* ------------------------------------------------------------- bounds
MaxDocs == 2
MaxLen == 2
MaxK == 2
MaxBatch == 2
MaxWorkers == 2

\* ------------------------------------------------------------- state
VARIABLES
    doc_mat,         \* self.doc_mat: [bucket -> [doc index -> weight in 1/1000]], 0 = not stored
    doc_freqs,       \* self.doc_freqs: [bucket -> number of documents]
    doc_dict,        \* self.doc_dict: <<id -> index, index -> id>>
    strict,          \* self.strict
    tokenizer_name,  \* self.tokenizer_name
    call,            \* the last finished call of a single-query operation
    bpc,             \* batch_closest_docs: "idle", "running", "returned" or "raised"
    bargs,           \* its arguments [queries, k, num_workers]
    pool,            \* number of worker threads of the ThreadPool (0: none started)
    taskq,           \* task indices not yet taken by a worker, in submission order
    running,         \* [worker -> the chunk it runs and the results it has so far, or Idle]
    results,         \* MapResult._value: [query position -> result, or Pending]
    bexc,            \* MapResult: the first exception a chunk raised, or NoExc
    outq,            \* the pool's out-queue: chunks a worker finished, not yet stored
    completed,       \* chunk indices in the order the result handler stored them
    ncalls,          \* closest_docs invocations made by this batch
    bret             \* what the batch call returned or raised

index == <<doc_mat, doc_freqs, doc_dict, strict, tokenizer_name>>
batch == <<bpc, bargs, pool, taskq, running, outq, results, bexc, completed, ncalls, bret>>
vars == <<doc_mat, doc_freqs, doc_dict, strict, tokenizer_name, call,
          bpc, bargs, pool, taskq, running, outq, results, bexc, completed, ncalls, bret>>

\* ------------------------------------------------------------- index
\* metadata['hash_size'] of the indexes modelled
hash_size == 2
Buckets == 0 .. (hash_size - 1)
Weights == {0, 1}
DocNames == <<"d0", "d1", "d2", "d3", "d4", "d5">>
Tokenizers == {"corenlp", "simple"}

num_docs == Cardinality(DOMAIN doc_dict[1])
Docs == 0 .. (num_docs - 1)

\* doc_dict of an index of n documents: ids DocNames[1..n] on rows 0..n-1
DocDict(n) ==
    << [id \in {DocNames[i] : i \in 1 .. n} |->
            CHOOSE d \in 0 .. (n - 1) : DocNames[d + 1] = id],
       [d \in 0 .. (n - 1) |-> DocNames[d + 1]] >>

get_doc_index(doc_id) == doc_dict[0 + 1][doc_id]
get_doc_id(doc_index) == doc_dict[1 + 1][doc_index]
KnownDocIds == DOMAIN doc_dict[0 + 1]

\* ------------------------------------------------------------- numbers
\* LnMilli[n] = round(1000 * ln n), n = 1 .. 12
LnMilli == <<0, 693, 1099, 1386, 1609, 1792, 1946, 2079, 2197, 2303, 2398, 2485>>

\* np.log1p(count)
Log1p(count) == LnMilli[count + 1]

\* the clamp left out
IdfUnclamped(Ns) == LnMilli[2 * (num_docs - Ns) + 1] - LnMilli[2 * Ns + 1]
\* np.log((num_docs - Ns + 0.5) / (Ns + 0.5))
IdfRaw(Ns) == LnMilli[2 * (num_docs - Ns) + 1] - LnMilli[2 * Ns + 1]
\* line 132, idfs[idfs < 0] = 0
Idf(Ns) == IF IdfRaw(Ns) < 0 THEN 0 ELSE IdfRaw(Ns)

\* ------------------------------------------------------------- sequences
\* an array: the sequence s with every element computed and stored
Array(s) == SubSeq(s, 1, Len(s))
Range(s) == {s[i] : i \in DOMAIN s}
Count(s, x) == Cardinality({i \in DOMAIN s : s[i] = x})
\* the elements of a set of integers in ascending order
SortedSeq(S) ==
    Array([r \in 1 .. Cardinality(S) |->
            CHOOSE x \in S : Cardinality({y \in S : y < x}) = r - 1])
\* the sequences that list every element of S once
RECURSIVE Orderings(_)
Orderings(S) ==
    IF S = {} THEN {<<>>}
    ELSE UNION {{<<x>> \o p : p \in Orderings(S \ {x})} : x \in S}
\* the orderings of 1 .. n, for every row length an index can give
PermsOf == [n \in 0 .. (MaxDocs + 1) |-> Orderings(1 .. n)]
Perms(n) == PermsOf[n]
Ident(n) == [i \in 1 .. n |-> i]
\* the sign forgotten: np.argsort(res.data)
NegForgotten(s) == s
\* -res.data
Neg(s) == Array([i \in DOMAIN s |-> 0 - s[i]])
\* s[o]
Gather(s, o) == Array([i \in DOMAIN o |-> s[o[i]]])
\* one element too many: s[0:k + 1]
Slice0OneMore(s, k) == SubSeq(s, 1, IF k + 1 < Len(s) THEN k + 1 ELSE Len(s))
\* python's s[0:k]
Slice0(s, k) ==
    IF k >= 0 THEN SubSeq(s, 1, IF k < Len(s) THEN k ELSE Len(s))
    ELSE SubSeq(s, 1, IF Len(s) + k > 0 THEN Len(s) + k ELSE 0)

\* ------------------------------------------------------------- outcomes
Return(v) == [ok |-> TRUE, val |-> v]
Raise(e) == [ok |-> FALSE, err |-> e]

\* a one-row CSR matrix: indptr = [0, Len(indices)]
CsrRow(indices, data) == [indices |-> Array(indices), data |-> Array(data)]
\* sp.csr_matrix((1, self.hash_size))
EmptyRow == CsrRow(<<>>, <<>>)

\* ------------------------------------------------------------- text2spvec
\* an emptiness test that never fires
NoValidWordNever(wids) == Len(wids) < 0
\* an emptiness test taken after weighting: no bucket with a nonzero weight
NoValidWordAfterWeighting(wids) ==
    \A i \in DOMAIN wids : 2 * doc_freqs[wids[i]] >= num_docs
\* len(wids) == 0
NoValidWord(wids) == Len(wids) = 0

\* np.unique(wids, return_counts=True)
Unique(wids) == SortedSeq(Range(wids))
Counts(wids, wids_unique) ==
    Array([i \in DOMAIN wids_unique |-> Count(wids, wids_unique[i])])

\* data = np.multiply(np.log1p(wids_counts), idfs), idfs from self.doc_freqs[wids_unique]
TfIdf(wids_unique, wids_counts) ==
    [i \in DOMAIN wids_unique |-> Log1p(wids_counts[i]) * Idf(doc_freqs[wids_unique[i]])]

text2spvec(wids) ==
    IF NoValidWord(wids)
    THEN IF strict THEN Raise("EmptyQuery") ELSE Return(EmptyRow)
    ELSE LET wids_unique == Unique(wids)
             wids_counts == Counts(wids, wids_unique)
         IN  Return(CsrRow(wids_unique, TfIdf(wids_unique, wids_counts)))

\* ------------------------------------------------------------- spvec * doc_mat
\* columns reached through a stored entry of the row and a stored entry of doc_mat
Touched(spvec) ==
    {d \in Docs : \E j \in DOMAIN spvec.indices : doc_mat[spvec.indices[j]][d] # 0}

\* x times the weight w of 1/1000 units: floor(x * w / 1000), with every
\* intermediate product within 32 bits
TimesMilli(x, w) == (x \div 1000) * w + ((x % 1000) * w) \div 1000
RECURSIVE DotFrom(_, _, _)
DotFrom(spvec, d, j) ==
    IF j > Len(spvec.indices) THEN 0
    ELSE TimesMilli(spvec.data[j], doc_mat[spvec.indices[j]][d]) + DotFrom(spvec, d, j + 1)
Dot(spvec, d) == DotFrom(spvec, d, 1)

\* a product that keeps every column it reached
KeptEveryTouched(spvec, sums) == Touched(spvec)
\* scipy's csr_matmat keeps a column only when its sum is not zero
Kept(spvec, sums) == {d \in Touched(spvec) : sums[d] # 0}

SpMatMul(spvec) ==
    LET sums == [d \in Docs |-> Dot(spvec, d)]
        cols == SortedSeq(Kept(spvec, sums))
    IN  CsrRow(cols, [i \in DOMAIN cols |-> sums[cols[i]]])

\* ------------------------------------------------------------- top k
\* np.argsort(vals): positions by ascending value; among equal values position j
\* comes before position i when tie[j] < tie[i]
ArgSort(vals, tie) ==
    LET place == Array([i \in DOMAIN vals |->
                    Cardinality({j \in DOMAIN vals :
                        \/ vals[j] < vals[i]
                        \/ vals[j] = vals[i] /\ tie[j] < tie[i]})])
    IN  Array([r \in DOMAIN vals |-> CHOOSE i \in DOMAIN vals : place[i] = r - 1])

\* the positions of S in the order tie ranks them
ByTie(S, tie) ==
    Array([r \in 1 .. Cardinality(S) |->
            CHOOSE i \in S : Cardinality({j \in S : tie[j] < tie[i]}) = r - 1])
\* np.argpartition(vals, kth): position kth (counted from the end when negative)
\* holds the value a full sort would put there, the positions before it hold values
\* not larger and the positions after it values not smaller, each side in an order
\* numpy is free to choose: here the order tie ranks them in, so that every
\* partition is the ArgPartition of some tie
ArgPartition(vals, kth, tie) ==
    IF Len(vals) = 0 THEN <<>>
    ELSE LET s == ArgSort(vals, tie)
             pivot == (IF kth < 0 THEN kth + Len(vals) ELSE kth) + 1
         IN  ByTie({s[i] : i \in 1 .. (pivot - 1)}, tie)
             \o <<s[pivot]>>
             \o ByTie({s[i] : i \in (pivot + 1) .. Len(vals)}, tie)

\* the selected positions left in the order the partition gave them
SortSelectedSkipped(data, o) == o
\* line 78: o_sort = o[np.argsort(-res.data[o])]
SortSelected(data, o) == Gather(o, ArgSort(Gather(Neg(data), o), Ident(Len(o))))

\* lines 74-78 on res.data; np.argpartition checks kth against the length only when
\* the array is not empty
TopK(data, k, tie) ==
    IF Len(data) <= k
    THEN Return(ArgSort(Neg(data), tie))
    ELSE IF Len(data) # 0 /\ k < 0 - Len(data)
         THEN Raise("KthOutOfBounds")
         ELSE Return(SortSelected(data, Slice0(ArgPartition(Neg(data), k, tie), k)))

\* lines 80-81
Ranked(res, o_sort) ==
    [doc_ids |-> Array([i \in DOMAIN o_sort |-> get_doc_id(res.indices[o_sort[i]])]),
     doc_scores |-> Gather(res.data, o_sort)]

\* lines 74-82 on res
RankDocs(res, k, tie) ==
    LET o_sort == TopK(res.data, k, tie)
    IN  IF ~o_sort.ok THEN o_sort ELSE Return(Ranked(res, o_sort.val))

\* lines 71-72; a failure of text2spvec propagates
Scores(wids) ==
    LET spvec == text2spvec(wids)
    IN  IF ~spvec.ok THEN spvec ELSE Return(SpMatMul(spvec.val))

\* lines 74-82 after lines 71-72
RankScores(res, k, tie) == IF ~res.ok THEN res ELSE RankDocs(res.val, k, tie)

closest_docs(wids, k, tie) == RankScores(Scores(wids), k, tie)

\* ------------------------------------------------------------- one document
\* the column taken for a position of res.data
GetColDataByPosition(res, doc_index) ==
    IF doc_index + 1 <= Len(res.data) THEN <<res.data[doc_index + 1]>> ELSE <<>>
\* (spvec * self.doc_mat).getcol(doc_index).data
GetColData(res, doc_index) ==
    [i \in 1 .. Cardinality({j \in DOMAIN res.indices : res.indices[j] = doc_index}) |->
        res.data[CHOOSE j \in DOMAIN res.indices : res.indices[j] = doc_index]]

get_similarity_with_doc(wids, doc_id) ==
    LET spvec == text2spvec(wids) IN
    IF ~spvec.ok THEN spvec
    ELSE IF doc_id \notin KnownDocIds THEN Raise("UnknownDocument")
    ELSE LET score == GetColData(SpMatMul(spvec.val), get_doc_index(doc_id))
         IN  Return(IF Len(score) = 0 THEN 0 ELSE score[1])

\* ------------------------------------------------------------- inputs
Queries == UNION {[1 .. n -> Buckets] : n \in 0 .. MaxLen}
Ks == (0 - 2) .. MaxK
\* the choices numpy has: the order it leaves equal scores in and the order it
\* leaves each side of a partition in, each a ranking of the scored documents
TieOrders(res) == Perms(IF res.ok THEN Len(res.val.data) ELSE 0)
\* what closest_docs(q, k) can give, over the orders of equal scores
ClosestDocsOutcomes(q, k) == {closest_docs(q, k, tie) : tie \in TieOrders(Scores(q))}
AskedDocIds == {DocNames[i] : i \in 1 .. (MaxDocs + 1)}

\* the matrices np.load can give, in the units of the file
Matrices(n) == [Buckets -> [0 .. (n - 1) -> Weights]]

\* 1000 * sqrt(n)
SqrtMilli == <<1000, 1414, 1732, 2000, 2236, 2449, 2646, 2828, 3000>>
RECURSIVE SumSquares(_, _, _)
SumSquares(matrix, d, b) ==
    IF b >= hash_size THEN 0
    ELSE matrix[b][d] * matrix[b][d] + SumSquares(matrix, d, b + 1)
\* the L2 norm of column d in 1/1000 units; sklearn takes 1 for a column of zeros
ColumnNorm(matrix, d) ==
    LET s == SumSquares(matrix, d, 0) IN IF s = 0 THEN 1000 ELSE SqrtMilli[s]
\* normalize(matrix, axis=0): every column divided by its L2 norm
normalize(matrix) ==
    [b \in Buckets |-> [d \in DOMAIN matrix[b] |->
        (matrix[b][d] * 1000000) \div ColumnNorm(matrix, d)]]
\* the loaded matrix as it is, in 1/1000 units
AsLoaded(matrix) ==
    [b \in Buckets |-> [d \in DOMAIN matrix[b] |-> matrix[b][d] * 1000]]
\* line 43: matrix if not normalize_vectors else normalize(matrix, axis=0).tocsr()
StoredDocMat(matrix, normalize_vectors) ==
    IF ~normalize_vectors THEN AsLoaded(matrix) ELSE normalize(matrix)
DocFreqs(n) == [Buckets -> 0 .. n]

NoCall == [op |-> "none"]
NoExc == [ok |-> TRUE]
Pending == [ok |-> FALSE, err |-> "Pending"]
Idle == [task |-> 0, done |-> <<>>]

BatchIdle ==
    /\ bpc = "idle"
    /\ bargs = <<>>
    /\ pool = 0
    /\ taskq = <<>>
    /\ running = <<>>
    /\ outq = <<>>
    /\ results = <<>>
    /\ bexc = NoExc
    /\ completed = <<>>
    /\ ncalls = 0
    /\ bret = Pending

\* the ranker after __init__ (tokenizer='corenlp' is the default of line 33)
Init ==
    /\ \E n \in 1 .. MaxDocs :
        /\ doc_dict = DocDict(n)
        /\ \E matrix \in Matrices(n), normalize_vectors \in BOOLEAN :
                doc_mat = StoredDocMat(matrix, normalize_vectors)
        /\ doc_freqs \in DocFreqs(n)
    /\ strict \in BOOLEAN
    /\ tokenizer_name = "corenlp"
    /\ call = NoCall
    /\ BatchIdle

\* ------------------------------------------------------------- single calls
Text2Spvec ==
    /\ call = NoCall
    /\ \E q \in Queries :
        /\ call' = [op |-> "text2spvec", query |-> q, ret |-> text2spvec(q)]
        /\ UNCHANGED <<index, batch>>

\* a call of closest_docs with k among ks
ClosestDocsAmong(ks) ==
    /\ call = NoCall
    /\ \E q \in Queries :
        \* closest_docs(q, k, tie), the scores of q computed once for every k and tie
        \E res \in {Scores(q)} :
            \E k \in ks, tie \in TieOrders(res) :
                call' = [op |-> "closest_docs", query |-> q, k |-> k,
                         ret |-> RankScores(res, k, tie)]
    /\ UNCHANGED <<index, batch>>

ClosestDocs == ClosestDocsAmong(Ks)

GetSimilarityWithDoc ==
    /\ call = NoCall
    /\ \E q \in Queries, id \in AskedDocIds :
        /\ call' = [op |-> "get_similarity_with_doc", query |-> q, doc_id |-> id,
                    ret |-> get_similarity_with_doc(q, id)]
        /\ UNCHANGED <<index, batch>>

\* the caller drops the result: per-call structures do not outlive the call
Forget ==
    /\ call # NoCall
    /\ call' = NoCall
    /\ UNCHANGED <<index, batch>>

Next == Text2Spvec \/ ClosestDocs \/ GetSimilarityWithDoc \/ Forget

Spec == Init /\ [][Next]_vars

\* ------------------------------------------------------------- ranking
\* closest_docs on the indexes of up to one document more, where the partition of
\* line 77 leaves two documents for the sort of line 78.  Every document of these
\* indexes holds a bucket (a document that holds none is never scored) and strict
\* is the default of line 33.
RankMatrices(n) == {matrix \in Matrices(n) : \A d \in 0 .. (n - 1) : \E b \in Buckets : matrix[b][d] # 0}
RankInit ==
    /\ \E n \in 1 .. (MaxDocs + 1) :
        /\ doc_dict = DocDict(n)
        /\ \E matrix \in RankMatrices(n), normalize_vectors \in BOOLEAN :
                doc_mat = StoredDocMat(matrix, normalize_vectors)
        /\ doc_freqs \in DocFreqs(n)
    /\ strict = TRUE
    /\ tokenizer_name = "corenlp"
    /\ call = NoCall
    /\ BatchIdle

\* the calls that ask for at least one document
ClosestDocsTopK == ClosestDocsAmong(1 .. MaxK)

RankNext == ClosestDocsTopK \/ Forget

RankSpec == RankInit /\ [][RankNext]_vars

\* ------------------------------------------------------------- properties of one call
\* the weight the query gives bucket b, from the definition of section 4.2:
\* log(1 + tf(b)) * max(0, log((N - Nb + 0.5) / (Nb + 0.5)))
QueryWeight(q, b) ==
    IF Count(q, b) = 0 \/ 2 * doc_freqs[b] >= num_docs THEN 0
    ELSE LnMilli[Count(q, b) + 1]
            * (LnMilli[2 * (num_docs - doc_freqs[b]) + 1] - LnMilli[2 * doc_freqs[b] + 1])
\* the documents with a nonzero weight in a bucket where the query is nonzero
Overlapping(q) ==
    {d \in Docs : \E b \in Buckets : QueryWeight(q, b) # 0 /\ doc_mat[b][d] # 0}
RECURSIVE SumOver(_, _, _)
SumOver(q, d, b) ==
    IF b >= hash_size THEN 0
    ELSE TimesMilli(QueryWeight(q, b), doc_mat[b][d]) + SumOver(q, d, b + 1)
InnerProduct(q, d) == SumOver(q, d, 0)
\* the entries of the score mapping
Scored(q) == {d \in Docs : InnerProduct(q, d) # 0}
Min(a, b) == IF a < b THEN a ELSE b
IsClosest == call.op = "closest_docs"
IsVector == call.op = "text2spvec"
IsSimilarity == call.op = "get_similarity_with_doc"
Returned == call.ret.ok
DocIds == call.ret.val.doc_ids
DocScores == call.ret.val.doc_scores

\* C3: a query with no valid n-gram fails with EmptyQuery under strict; without
\* strict text2spvec returns the vector with no entries and closest_docs, for
\* every k >= 0, the empty result.
EmptyQueryPolicy ==
    /\ (IsVector /\ call.query = <<>>) =>
            call.ret = (IF strict THEN Raise("EmptyQuery") ELSE Return(CsrRow(<<>>, <<>>)))
    /\ (IsClosest /\ call.query = <<>> /\ strict) => call.ret = Raise("EmptyQuery")
    /\ (IsClosest /\ call.query = <<>> /\ ~strict /\ call.k >= 0) =>
            call.ret = Return([doc_ids |-> <<>>, doc_scores |-> <<>>])

\* a lenient ranker whose documents hold weights answers an empty query
EmptyQueryWitness ==
    /\ IsClosest
    /\ call.query = <<>>
    /\ ~strict
    /\ call.k = MaxK
    /\ Returned
    /\ \A d \in Docs : \E b \in Buckets : doc_mat[b][d] # 0
    /\ \A b \in Buckets : doc_freqs[b] = 0

\* C4: for k >= 0 closest_docs returns exactly min(k, m) documents and as many
\* scores, m the number of entries of the score mapping.
TopKLength ==
    (IsClosest /\ call.k >= 0 /\ Returned) =>
        /\ Len(DocIds) = Min(call.k, Cardinality(Scored(call.query)))
        /\ Len(DocScores) = Len(DocIds)

\* more scored documents than k, with k >= 1
TopKLengthWitness ==
    /\ IsClosest
    /\ Returned
    /\ call.k = 1
    /\ Cardinality(Scored(call.query)) = 2
    /\ Len(DocIds) = 1

\* C5: for k >= 1 the result holds distinct scored documents with their scores, in
\* non-increasing order, no document left out scores more than one returned, and
\* for k = 1 the result carries the maximum score.
TopKLargest ==
    (IsClosest /\ call.k >= 1 /\ Returned) =>
        \A scored \in {Scored(call.query)} :
            /\ \A i \in DOMAIN DocIds :
                    /\ DocIds[i] \in KnownDocIds
                    /\ get_doc_index(DocIds[i]) \in scored
                    /\ DocScores[i] = InnerProduct(call.query, get_doc_index(DocIds[i]))
            /\ \A i, j \in DOMAIN DocIds : DocIds[i] = DocIds[j] => i = j
            /\ \A i, j \in DOMAIN DocScores : i < j => DocScores[i] >= DocScores[j]
            /\ \A d \in scored :
                    get_doc_id(d) \notin Range(DocIds) =>
                        \A i \in DOMAIN DocScores :
                            DocScores[i] >= InnerProduct(call.query, d)
            /\ (call.k = 1 /\ scored # {}) =>
                    /\ Len(DocScores) = 1
                    /\ \A d \in scored :
                            DocScores[1] >= InnerProduct(call.query, d)

\* the partition branch with a sort to do: three documents scored, stored in
\* ascending order of their scores, and the two largest returned largest first
TopKLargestWitness ==
    /\ IsClosest
    /\ Returned
    /\ call.k = 2
    /\ num_docs = 3
    /\ Scored(call.query) = {0, 1, 2}
    /\ InnerProduct(call.query, 0) < InnerProduct(call.query, 1)
    /\ InnerProduct(call.query, 1) < InnerProduct(call.query, 2)
    /\ DocIds = <<get_doc_id(2), get_doc_id(1)>>
    /\ DocScores[1] > DocScores[2]

\* C6 as stated: every returned score is strictly greater than the next one.
StrictlyDescending ==
    (IsClosest /\ Returned) =>
        \A i \in DOMAIN DocScores :
            i < Len(DocScores) => DocScores[i] > DocScores[i + 1]

\* C6, amended: for every k the returned scores are non-increasing, each greater
\* than or equal to the next one; equal scores are returned side by side.
NonIncreasing ==
    (IsClosest /\ Returned) =>
        \A i \in DOMAIN DocScores :
            i < Len(DocScores) => DocScores[i] >= DocScores[i + 1]

\* two documents returned with the same score
EqualScoresWitness ==
    /\ IsClosest
    /\ Returned
    /\ Len(DocScores) = 2
    /\ DocScores[1] = DocScores[2]
    /\ DocIds[1] # DocIds[2]

\* C7: a returned document has a nonzero weight in a bucket where the query
\* vector is nonzero, and is never returned with score 0.
OnlyOverlappingDocuments ==
    (IsClosest /\ Returned) =>
        \A i \in DOMAIN DocIds :
            /\ DocIds[i] \in KnownDocIds
            /\ get_doc_index(DocIds[i]) \in Overlapping(call.query)
            /\ DocScores[i] # 0

\* a document holds only a bucket whose IDF is clamped to zero: it is left out
\* although k admits every document, and another document is returned
ZeroOverlapWitness ==
    /\ IsClosest
    /\ Returned
    /\ call.k >= num_docs
    /\ Len(DocIds) >= 1
    /\ \E d \in Docs :
            /\ get_doc_id(d) \notin Range(DocIds)
            /\ \E i \in DOMAIN call.query : doc_mat[call.query[i]][d] # 0

\* C8 as stated: an unknown doc_id always fails with UnknownDocument, a known one
\* always returns its score (0 without overlap).
UnknownDocumentAlways ==
    IsSimilarity =>
        /\ call.doc_id \notin KnownDocIds => call.ret = Raise("UnknownDocument")
        /\ call.doc_id \in KnownDocIds =>
                call.ret = Return(InnerProduct(call.query, get_doc_index(call.doc_id)))

\* C8, amended: the query is vectorized first, so a query with no valid n-gram
\* under strict fails with EmptyQuery whatever doc_id is; otherwise an unknown
\* doc_id fails with UnknownDocument and a known one returns the inner product, 0
\* without overlap, the score closest_docs reports for the document.
SimilarityWithDocument ==
    IsSimilarity =>
        IF strict /\ call.query = <<>>
        THEN call.ret = Raise("EmptyQuery")
        ELSE /\ call.doc_id \notin KnownDocIds => call.ret = Raise("UnknownDocument")
             /\ call.doc_id \in KnownDocIds =>
                    /\ call.ret = Return(InnerProduct(call.query, get_doc_index(call.doc_id)))
                    /\ get_doc_index(call.doc_id) \notin Overlapping(call.query)
                            => call.ret.val = 0
                    /\ LET all == closest_docs(call.query, num_docs, Ident(num_docs))
                       IN  \A i \in DOMAIN all.val.doc_ids :
                               all.val.doc_ids[i] = call.doc_id
                                   => all.val.doc_scores[i] = call.ret.val

\* the second document is scored and the first is not
SimilarityWitness ==
    /\ IsSimilarity
    /\ Returned
    /\ num_docs = 2
    /\ call.doc_id = get_doc_id(1)
    /\ call.ret.val > 0
    /\ InnerProduct(call.query, 0) = 0

\* C9 as stated: unique indices in range, one per bucket hit, weights
\* non-negative, and no stored weight is zero.
NoStoredZero ==
    (IsVector /\ Returned) =>
        LET v == call.ret.val IN
        /\ \A i, j \in DOMAIN v.indices : v.indices[i] = v.indices[j] => i = j
        /\ Range(v.indices) = Range(call.query)
        /\ Range(v.indices) \subseteq Buckets
        /\ \A i \in DOMAIN v.data : v.data[i] > 0

\* C9, amended: unique indices in [0, hash_size), one stored entry per distinct
\* bucket hit, its weight the TF-IDF weight of the bucket with collisions counted
\* together, never negative, and zero exactly when the IDF of the bucket clamps to
\* zero (num_docs <= 2 * doc_freqs[b]): such a bucket is stored with weight 0.
StoredEntries ==
    (IsVector /\ Returned) =>
        LET v == call.ret.val IN
        /\ Len(v.data) = Len(v.indices)
        /\ \A i, j \in DOMAIN v.indices : v.indices[i] = v.indices[j] => i = j
        /\ Range(v.indices) = Range(call.query)
        /\ Range(v.indices) \subseteq Buckets
        /\ \A i \in DOMAIN v.data :
                /\ v.data[i] >= 0
                /\ v.data[i] = QueryWeight(call.query, v.indices[i])
                /\ v.data[i] = 0 <=> num_docs <= 2 * doc_freqs[v.indices[i]]

\* two n-grams collide in one bucket, and a bucket is stored with weight 0
StoredZeroWitness ==
    /\ IsVector
    /\ Returned
    /\ Len(call.query) > Len(call.ret.val.indices)
    /\ \E i \in DOMAIN call.ret.val.data : call.ret.val.data[i] = 0

\* C10: under strict a query with at least one valid n-gram never fails with
\* EmptyQuery, also when every bucket it hits has a zero weight: text2spvec
\* returns the vector and closest_docs, for k >= 0, a result.
StrictDecidesBeforeWeighting ==
    (strict /\ (IsVector \/ IsClosest) /\ call.query # <<>>) =>
        /\ call.ret # Raise("EmptyQuery")
        /\ IsVector => Returned
        /\ (IsClosest /\ call.k >= 0) => Returned

\* every bucket of the query is clamped, documents hold those buckets
AllZeroWeightsWitness ==
    /\ strict
    /\ IsClosest
    /\ call.query # <<>>
    /\ call.k >= 1
    /\ \A i \in DOMAIN call.query : num_docs <= 2 * doc_freqs[call.query[i]]
    /\ \E i \in DOMAIN call.query : \E d \in Docs : doc_mat[call.query[i]][d] # 0
    /\ call.ret = Return([doc_ids |-> <<>>, doc_scores |-> <<>>])

\* ------------------------------------------------------------- batch_closest_docs
\* num_workers is <<>> for None and <<n>> for the integer n
NumWorkers == {<<>>} \cup {<<n>> : n \in 0 .. MaxWorkers}
BatchQueries == {<<>>} \cup {<<b>> : b \in Buckets}
QueryLists == UNION {[1 .. n -> BatchQueries] : n \in 0 .. MaxBatch}

\* a guard that lets two workers through
UnsupportedConcurrencyAboveTwo(name, nw) == name = "corenlp" /\ nw[1] > 2

\* line 85: self.tokenizer_name == 'corenlp' and num_workers > 1
UnsupportedConcurrency(name, nw) == name = "corenlp" /\ nw[1] > 1
\* None > 1 is evaluated, and fails, only for the corenlp tokenizer
ComparesNone(name, nw) == name = "corenlp" /\ nw = <<>>

\* Pool.map: chunksize, extra = divmod(len(iterable), len(self._pool) * 4)
Chunksize(n, size) ==
    IF n = 0 THEN 0 ELSE (n \div (size * 4)) + (IF n % (size * 4) = 0 THEN 0 ELSE 1)
NumChunks(n, cs) == IF n = 0 THEN 0 ELSE (n + cs - 1) \div cs
\* the query positions of chunk t
ChunkFirst(t, cs) == (t - 1) * cs + 1
ChunkLast(t, cs, n) == IF t * cs < n THEN t * cs ELSE n

\* a gather that fills the first free positions, in completion order
StoreChunkAsCompleted(value, t, cs, chunk) ==
    LET free == SortedSeq({i \in DOMAIN value : value[i] = Pending})
    IN  [i \in DOMAIN value |->
            IF \E j \in DOMAIN chunk : j <= Len(free) /\ free[j] = i
            THEN chunk[CHOOSE j \in DOMAIN chunk : free[j] = i] ELSE value[i]]

\* MapResult._set on success: self._value[i*chunksize:(i+1)*chunksize] = result
StoreChunk(value, t, cs, chunk) ==
    [i \in DOMAIN value |->
        IF ChunkFirst(t, cs) <= i /\ i < ChunkFirst(t, cs) + Len(chunk)
        THEN chunk[i - ChunkFirst(t, cs) + 1] ELSE value[i]]

\* the ranker the batch runs on: document d holds bucket d mod hash_size and no
\* bucket is frequent; strict and the tokenizer are free
BatchInit ==
    /\ doc_dict = DocDict(MaxDocs)
    /\ \E normalize_vectors \in BOOLEAN :
            doc_mat = StoredDocMat([b \in Buckets |-> [d \in 0 .. (MaxDocs - 1) |->
                                        IF d % hash_size = b THEN 1 ELSE 0]],
                                   normalize_vectors)
    /\ doc_freqs = [b \in Buckets |-> 0]
    /\ strict \in BOOLEAN
    /\ tokenizer_name \in Tokenizers
    /\ call = NoCall
    /\ BatchIdle

\* lines 85-92 up to the dispatch of threads.map
BatchCall ==
    /\ bpc = "idle"
    /\ \E queries \in QueryLists, k \in Ks, nw \in NumWorkers :
        /\ bargs' = [queries |-> queries, k |-> k, num_workers |-> nw]
        /\ IF ComparesNone(tokenizer_name, nw)
           THEN /\ bpc' = "raised"
                /\ bret' = Raise("TypeError")
                /\ UNCHANGED <<pool, taskq, running, results>>
           ELSE IF nw # <<>> /\ UnsupportedConcurrency(tokenizer_name, nw)
           THEN /\ bpc' = "raised"
                /\ bret' = Raise("UnsupportedConcurrency")
                /\ UNCHANGED <<pool, taskq, running, results>>
           ELSE IF nw # <<>> /\ nw[1] < 1
           THEN /\ bpc' = "raised"
                /\ bret' = Raise("PoolSizeError")
                /\ UNCHANGED <<pool, taskq, running, results>>
           ELSE \E size \in (IF nw = <<>> THEN 1 .. MaxWorkers ELSE {nw[1]}) :
                /\ bpc' = "running"
                /\ bret' = Pending
                /\ pool' = size
                /\ running' = [w \in 1 .. size |-> Idle]
                /\ taskq' = Ident(NumChunks(Len(queries), Chunksize(Len(queries), size)))
                /\ results' = [i \in 1 .. Len(queries) |-> Pending]
    /\ UNCHANGED <<index, call, outq, bexc, completed, ncalls>>

\* a worker thread takes the next chunk from the task queue
WorkerTake ==
    /\ bpc = "running"
    /\ taskq # <<>>
    /\ \E w \in 1 .. pool :
        /\ running[w] = Idle
        /\ running' = [running EXCEPT ![w] = [task |-> Head(taskq), done |-> <<>>]]
    /\ taskq' = Tail(taskq)
    /\ UNCHANGED <<index, call, bpc, bargs, pool, outq, results, bexc, completed, ncalls, bret>>

\* a worker thread runs closest_docs on the next query of its chunk (mapstar); the
\* chunk ends with its last query or with the first exception, and the worker then
\* puts (task, (success, result)) on the pool's out-queue and is free again
WorkerRun ==
    /\ bpc = "running"
    /\ \E w \in 1 .. pool :
        /\ running[w] # Idle
        /\ LET t == running[w].task
               n == Len(bargs.queries)
               cs == Chunksize(n, pool)
               q == bargs.queries[ChunkFirst(t, cs) + Len(running[w].done)]
           IN  \E tie \in TieOrders(Scores(q)) :
               LET r == closest_docs(q, bargs.k, tie)
                   done == Append(running[w].done, r)
               IN  /\ ncalls' = ncalls + 1
                   /\ IF ~r.ok
                      THEN /\ running' = [running EXCEPT ![w] = Idle]
                           /\ outq' = Append(outq, [task |-> t, result |-> r])
                      ELSE IF ChunkFirst(t, cs) + Len(done) > ChunkLast(t, cs, n)
                      THEN /\ running' = [running EXCEPT ![w] = Idle]
                           /\ outq' = Append(outq, [task |-> t, result |-> Return(done)])
                      ELSE /\ running' = [running EXCEPT ![w].done = done]
                           /\ UNCHANGED outq
    /\ UNCHANGED <<index, call, bpc, bargs, pool, taskq, results, bexc, completed, bret>>

\* the pool's result-handler thread takes the next finished chunk from the out-queue
\* and runs MapResult._set: a successful chunk is stored while no chunk has failed,
\* the first exception is kept, and the chunk counts as done
HandleResult ==
    /\ bpc = "running"
    /\ outq # <<>>
    /\ LET t == Head(outq).task
           result == Head(outq).result
           cs == Chunksize(Len(bargs.queries), pool)
       IN  /\ IF result.ok
              THEN /\ results' = IF bexc = NoExc
                                 THEN StoreChunk(results, t, cs, result.val)
                                 ELSE results
                   /\ UNCHANGED bexc
              ELSE /\ bexc' = IF bexc = NoExc THEN result ELSE bexc
                   /\ UNCHANGED results
           /\ completed' = Append(completed, t)
    /\ outq' = Tail(outq)
    /\ UNCHANGED <<index, call, bpc, bargs, pool, taskq, running, ncalls, bret>>

\* threads.map returns when every chunk is done: the list, or the first exception;
\* leaving the with block terminates the pool
BatchJoin ==
    /\ bpc = "running"
    /\ Len(completed) = NumChunks(Len(bargs.queries), Chunksize(Len(bargs.queries), pool))
    /\ IF bexc = NoExc
       THEN bpc' = "returned" /\ bret' = Return(results)
       ELSE bpc' = "raised" /\ bret' = bexc
    /\ pool' = 0
    /\ running' = <<>>
    /\ UNCHANGED <<index, call, bargs, taskq, outq, results, bexc, completed, ncalls>>

\* the caller drops the outcome of the batch
BatchForget ==
    /\ bpc \in {"returned", "raised"}
    /\ bpc' = "idle"
    /\ bargs' = <<>>
    /\ pool' = 0
    /\ taskq' = <<>>
    /\ running' = <<>>
    /\ outq' = <<>>
    /\ results' = <<>>
    /\ bexc' = NoExc
    /\ completed' = <<>>
    /\ ncalls' = 0
    /\ bret' = Pending
    /\ UNCHANGED <<index, call>>

BatchNext == BatchCall \/ WorkerTake \/ WorkerRun \/ HandleResult \/ BatchJoin \/ BatchForget

BatchSpec == BatchInit /\ [][BatchNext]_vars

\* ------------------------------------------------------------- batch properties
\* C1: a batch that returns gives one entry per input query, and entry i is a
\* result of closest_docs(queries[i], k) called alone on the same index, in
\* whatever order the workers completed.
BatchKeepsInputOrder ==
    bpc = "returned" =>
        /\ bret.ok
        /\ Len(bret.val) = Len(bargs.queries)
        /\ \A i \in 1 .. Len(bargs.queries) :
                bret.val[i] \in ClosestDocsOutcomes(bargs.queries[i], bargs.k)

\* two queries with different results, the second completed first
BatchOutOfOrderWitness ==
    /\ bpc = "returned"
    /\ Len(bargs.queries) = 2
    /\ completed = <<2, 1>>
    /\ bret.val[1] # bret.val[2]
    /\ Len(bret.val[1].val.doc_ids) = 1
    /\ Len(bret.val[2].val.doc_ids) = 1

\* C2: with the corenlp tokenizer and num_workers > 1 the call fails with
\* UnsupportedConcurrency, no pool is created, no task is queued and closest_docs
\* runs for no query.
UnsupportedConcurrencyFailsFast ==
    (/\ bpc # "idle"
     /\ tokenizer_name = "corenlp"
     /\ bargs.num_workers # <<>>
     /\ bargs.num_workers[1] > 1)
    => /\ bpc = "raised"
       /\ bret = Raise("UnsupportedConcurrency")
       /\ pool = 0
       /\ taskq = <<>>
       /\ running = <<>>
       /\ outq = <<>>
       /\ completed = <<>>
       /\ ncalls = 0

UnsupportedConcurrencyWitness ==
    /\ bpc = "raised"
    /\ bret = Raise("UnsupportedConcurrency")
    /\ tokenizer_name = "corenlp"
    /\ bargs.num_workers = <<2>>
    /\ Len(bargs.queries) = 2

=============================================================================
